---- MODULE Spec2Model ----
(***************************************************************************)
(* Device-code lifecycle of hyperstack-core: the in-memory grant store of  *)
(* backend/auth-device-actions.js (device-code, device-approve,            *)
(* device-deny, device-token and the periodic sweep).                      *)
(*                                                                         *)
(* Text typed by a human is a sequence of one-character strings, so that   *)
(* trimming and case conversion are computed rather than assumed; codes    *)
(* and Map keys are strings built by concatenation, as the code builds     *)
(* them.                                                                   *)
(* Grant records are JavaScript objects shared by reference: they live in  *)
(* `heap` and the Map `deviceCodes` holds references to them.              *)
(* A request handler runs to its next `await`, where it is suspended; the  *)
(* suspended handlers form a bag, since handlers have no identity.         *)
(***************************************************************************)
EXTENDS Integers, Sequences, FiniteSets, Bags, TLC

VARIABLES
  now,          \* Date.now(), in milliseconds
  heap,         \* the grant objects ever allocated, by reference (1..Len(heap))
  deviceCodes,  \* the Map: key (string) -> reference to a grant | device code string
  inflight,     \* the suspended request handlers: a bag of (await point, locals)
  resp,         \* the response (or exception) the last step produced, until it is sent
  hist,         \* per grant object: the responses given about it so far
  client,       \* one run of `hyperstack-core login` (cli.js) and the credentials file
  gen,          \* the bytes crypto.randomBytes gave for one pairing code, and the code
  race          \* the responses of the calls on one grant, in the order they were given

vars == <<now, heap, deviceCodes, inflight, resp, hist, client, gen, race>>

-----------------------------------------------------------------------------
(* Bounds of the model *)

\* number of request handlers that may be in flight at once
NProcs == 2
\* number of device-code requests served (grant objects allocated)
MaxGrants == 2
\* number of clock steps
MaxTicks == 2
\* number of handlers in flight at once when one approve, one deny and one
\* device-token call race on one grant
RaceProcs == 3

-----------------------------------------------------------------------------
(* Program constants *)

\* setInterval(..., 300000): the sweep period
SweepInterval == 300000
\* expiresAt: Date.now() + 600000
GrantTTL == 600000
\* crypto.randomBytes(32)
DeviceCodeBytes == 32
\* expires_in: 600 and interval: 5 of the device-code response
ExpiresIn == 600
PollInterval == 5

\* the clock step of the model: one grant lifetime, so that a grant is seen before,
\* exactly at and after its expiresAt
ClockStep == GrantTTL

-----------------------------------------------------------------------------
(* Strings *)

\* var chars = "ABCDEFGHJKLMNPQRSTUVWXYZ23456789"
chars ==
  << "A","B","C","D","E","F","G","H","J","K","L","M","N","P","Q","R",
     "S","T","U","V","W","X","Y","Z","2","3","4","5","6","7","8","9" >>

HexDigits ==
  << "0","1","2","3","4","5","6","7","8","9","a","b","c","d","e","f" >>

LowerCase ==
  << "a","b","c","d","e","f","g","h","i","j","k","l","m",
     "n","o","p","q","r","s","t","u","v","w","x","y","z" >>
UpperCase ==
  << "A","B","C","D","E","F","G","H","I","J","K","L","M",
     "N","O","P","Q","R","S","T","U","V","W","X","Y","Z" >>

\* the empty string: `req.body.x || ""`
EmptyStr == ""

\* the string of a sequence of characters
RECURSIVE Join(_)
Join(s) == IF s = << >> THEN EmptyStr ELSE Head(s) \o Join(Tail(s))

\* String.prototype.toUpperCase
ToUpperCase(s) ==
  [ i \in 1..Len(s) |->
      IF \E k \in 1..Len(LowerCase) : LowerCase[k] = s[i]
      THEN UpperCase[CHOOSE k \in 1..Len(LowerCase) : LowerCase[k] = s[i]]
      ELSE s[i] ]

\* String.prototype.trim
Trim(s) ==
  LET keep == { i \in 1..Len(s) : s[i] # " " }
  IN  IF keep = {} THEN << >>
      ELSE LET lo == CHOOSE i \in keep : \A j \in keep : i <= j
               hi == CHOOSE i \in keep : \A j \in keep : j <= i
           IN  SubSeq(s, lo, hi)

\* (req.body.user_code || "").trim().toUpperCase()
NormalizeUserCode(raw) == Join(ToUpperCase(Trim(raw)))

\* Buffer.prototype.toString("hex")
RECURSIVE ToHex(_)
ToHex(bytes) ==
  IF bytes = << >> THEN EmptyStr
  ELSE HexDigits[(Head(bytes) \div 16) + 1] \o HexDigits[(Head(bytes) % 16) + 1]
         \o ToHex(Tail(bytes))

\* generateCode that never picks the last symbol: bytes[i] % (chars.length - 1)
RECURSIVE generateCodeSkewed(_)
generateCodeSkewed(bytes) ==
  IF bytes = << >> THEN EmptyStr
  ELSE chars[(Head(bytes) % (Len(chars) - 1)) + 1] \o generateCodeSkewed(Tail(bytes))

\* generateCode(len), given the bytes crypto.randomBytes(len) returned:
\* code += chars[bytes[i] % chars.length]
RECURSIVE generateCode(_)
generateCode(bytes) ==
  IF bytes = << >> THEN EmptyStr
  ELSE chars[(Head(bytes) % Len(chars)) + 1] \o generateCode(Tail(bytes))

\* generateCode(4) + "-" + generateCode(4)
MakeUserCode(r4) == generateCode(r4[1]) \o "-" \o generateCode(r4[2])

\* "uc:" + userCode
UcKey(userCode) == "uc:" \o userCode

-----------------------------------------------------------------------------
(* Inputs: what the random source, the callers and the collaborators give *)

\* outcomes of crypto.randomBytes(32): every byte equal, for two byte values
RandomBytes32 == { [ i \in 1..DeviceCodeBytes |-> b ] : b \in {10, 171} }

\* outcomes of the two crypto.randomBytes(4) calls of one device-code request
RandomBytes4x2 ==
  { << <<0, 1, 2, 3>>,     <<4, 5, 24, 25>> >>,
    << <<32, 33, 34, 35>>, <<36, 37, 56, 57>> >>,
    << <<20, 21, 22, 23>>, <<26, 27, 28, 29>> >> }

\* crypto.randomBytes(32).toString("hex") and the user code, per random outcome
DeviceCodeOf == [ rb \in RandomBytes32 |-> ToHex(rb) ]
UserCodeFor == [ r4 \in RandomBytes4x2 |-> MakeUserCode(r4) ]

AllDeviceCodes == { DeviceCodeOf[rb] : rb \in RandomBytes32 }
AllUserCodes == { UserCodeFor[r4] : r4 \in RandomBytes4x2 }

\* the users authenticate(req) may resolve to; null when the caller is not logged in
Null == [ id |-> "null", apiKey |-> "null" ]
Users ==
  { [ id |-> "u1", apiKey |-> "hs_u1" ], [ id |-> "u2", apiKey |-> "hs_u2" ] }

\* req.body.user_code as typed by the human
RawUserCodes ==
  { << >>,
    << " ", " " >>,
    << " ", "a", "b", "c", "d", "-", "e", "f", "2", "3", " " >>,
    << "W", "X", "Y", "Z", "-", "4", "5", "6", "7" >> }

\* the user_code each handler computes from req.body.user_code
UserCodeOf == [ raw \in RawUserCodes |-> NormalizeUserCode(raw) ]

\* req.body.device_code as sent by the polling client (any string)
RawDeviceCodes ==
  { EmptyStr } \cup AllDeviceCodes \cup { UcKey(c) : c \in AllUserCodes }

-----------------------------------------------------------------------------
(* JavaScript values and the Map *)

\* the value `undefined`
Undefined == [ kind |-> "undefined", ref |-> 0, str |-> EmptyStr ]
\* a reference to the grant object heap[n]
GrantRef(n) == [ kind |-> "grant", ref |-> n, str |-> EmptyStr ]
\* a string value
StrVal(s) == [ kind |-> "string", ref |-> 0, str |-> s ]

\* Map.prototype.get / set / delete
MapGet(m, k) == IF k \in DOMAIN m THEN m[k] ELSE Undefined
MapSet(m, k, v) == [ x \in (DOMAIN m) \cup {k} |-> IF x = k THEN v ELSE m[x] ]
MapDelete(m, k) == [ x \in (DOMAIN m) \ {k} |-> m[x] ]

\* `!v` is false for an object and for a non-empty string
Truthy(v) == v.kind = "grant" \/ (v.kind = "string" /\ v.str # EmptyStr)

\* v.expiresAt: a number for a grant object, undefined (here -1) for a string
NoNumber == -1
ExpiresAtOf(h, v) == IF v.kind = "grant" THEN h[v.ref].expiresAt ELSE NoNumber
\* the comparison written the wrong way round
GreaterThanInverted(a, b) == b # NoNumber /\ a < b

\* `a > b` of JavaScript: false when b is undefined
GreaterThan(a, b) == b # NoNumber /\ a > b
\* v.status: undefined for a string
StatusOf(h, v) == IF v.kind = "grant" THEN h[v.ref].status ELSE "undefined"

-----------------------------------------------------------------------------
(* State *)

\* a grant object nothing refers to any more: garbage
Collected ==
  [ userCode |-> EmptyStr, status |-> "collected", userId |-> "null",
    apiKey |-> "null", expiresAt |-> 0, createdAt |-> 0 ]

\* a heap in which a record is lost as soon as the Map drops it
CollectUnstored(h, m, fl) ==
  [ r \in 1..Len(h) |->
      IF \E k \in DOMAIN m : m[k] = GrantRef(r) THEN h[r] ELSE Collected ]

\* the heap once the objects that neither the Map nor a suspended handler refers to
\* are collected
Collect(h, m, fl) ==
  [ r \in 1..Len(h) |->
      IF \/ \E k \in DOMAIN m : m[k] = GrantRef(r)
         \/ \E x \in BagToSet(fl) : x.entry = r
      THEN h[r] ELSE Collected ]

\* a suspended handler: its await point and the locals that live across it
Handler(at, deviceCode, entry, approvedUser) ==
  [ at |-> at, deviceCode |-> deviceCode, entry |-> entry, approvedUser |-> approvedUser ]

\* a handler suspended at `await authenticate(req)`, which has read nothing yet
AuthWait(at) == Handler(at, EmptyStr, 0, "none")

\* what is remembered of a grant object: the codes it was created with and the
\* number of Issued (200) and AccessDenied (403) answers given for it
NewHist(deviceCode, userCode) ==
  [ deviceCode |-> deviceCode, userCode |-> userCode, issued |-> 0, denied |-> 0 ]

\* hist after the response r of a device-token handler
Record(hs, r) ==
  IF r.op = "device-token" /\ r.status = 200 THEN [ hs EXCEPT ![r.ref].issued = @ + 1 ]
  ELSE IF r.op = "device-token" /\ r.status = 403 THEN [ hs EXCEPT ![r.ref].denied = @ + 1 ]
  ELSE hs

\* a response: json(res, body) / error(res, msg, status) / an exception thrown.
\* arg is the code the request carried, ref the grant object the handler looked at,
\* userId the caller (approve, deny) or the account of the credential (token)
Response(op, status, err, arg, ref, apiKey, userId) ==
  [ op |-> op, status |-> status, error |-> err, arg |-> arg, ref |-> ref,
    apiKey |-> apiKey, userId |-> userId ]

\* no response: the step sent none
NoResponse == Response("none", 0, "", EmptyStr, 0, "null", "null")

\* the event loop runs one callback at a time: the next one starts when the
\* response of the last one is out
Ready == resp = NoResponse

\* a step that produces no response
Silent == resp' = NoResponse

\* no pairing code has been generated
NoCode == [ bytes |-> << >>, code |-> EmptyStr ]

\* the calls are not observed; they are observed, and none has been made
NotObserved == [ on |-> FALSE, start |-> << >>, log |-> << >> ]
Observing == [ on |-> TRUE, start |-> << >>, log |-> << >> ]

\* the observation after a step that gave response r and left Map m and heap h:
\* the store as device-code left it, then the responses of approve, deny and
\* device-token in the order they were given
Log(rc, r, m, h) ==
  IF ~rc.on \/ r = NoResponse THEN rc
  ELSE IF r.op = "device-code" THEN [ rc EXCEPT !.start = << [ map |-> m, heap |-> h ] >> ]
  ELSE [ rc EXCEPT !.log = Append(@, r) ]

Logged == race' = Log(race, resp', deviceCodes', heap')

\* the response is written to the connection
Deliver ==
  /\ UNCHANGED <<client, gen>>
  /\ ~Ready
  /\ resp' = NoResponse
  /\ UNCHANGED <<now, heap, deviceCodes, inflight, hist>>
  /\ Logged

\* a request is accepted while fewer than NProcs handlers are in flight (RaceProcs
\* while the calls on one grant are observed)
CanAccept == BagCardinality(inflight) < (IF race.on THEN RaceProcs ELSE NProcs)

Suspend(x) == inflight' = inflight (+) SetToBag({x})
Resume(x) == inflight' = inflight (-) SetToBag({x})
Suspended(x) == x \in BagToSet(inflight)

\* the server process after start-up
ServerInit ==
  /\ now = 0
  /\ heap = << >>
  /\ deviceCodes = << >>
  /\ inflight = EmptyBag
  /\ resp = NoResponse
  /\ hist = << >>

\* the credentials file: absent (or unreadable: loadCredentials returns null), or the
\* object it holds; api_key "" when the object has no api_key
NoFile == [ file |-> "none", api_key |-> "", user |-> "" ]
CredsObject(api_key, user) == [ file |-> "json", api_key |-> api_key, user |-> user ]

\* a run of login() that has not started, with the credentials file as it finds it
ClientAt(creds) ==
  [ pc |-> "start", creds |-> creds, expires_in |-> 0, interval |-> 0,
    pollInterval |-> 0, maxAttempts |-> 0, attempt |-> 0,
    sleeps |-> 0, calls |-> 0, last |-> [ status |-> 0, body |-> "none" ],
    onlyErrors |-> TRUE, message |-> "", exit |-> "running", loggedOut |-> FALSE ]

Init ==
  /\ ServerInit
  /\ client = ClientAt(NoFile)
  /\ gen = NoCode
  /\ race = NotObserved

\* the clock advances
Tick ==
  /\ UNCHANGED <<client, gen>>
  /\ Ready
  /\ now < MaxTicks * ClockStep
  /\ now' = now + ClockStep
  /\ Silent
  /\ UNCHANGED <<heap, deviceCodes, inflight, hist>>
  /\ Logged

\* a sweep cycle that also removes what expires at this very millisecond
SweepResultAtExpiry(m, h, t) ==
  [ k \in { x \in DOMAIN m : ~(ExpiresAtOf(h, m[x]) # NoNumber /\ t >= ExpiresAtOf(h, m[x])) }
      |-> m[k] ]

\* the setInterval callback: one sweep cycle
SweepResult(m, h, t) ==
  [ k \in { x \in DOMAIN m : ~GreaterThan(t, ExpiresAtOf(h, m[x])) } |-> m[k] ]

Sweep ==
  /\ UNCHANGED <<client, gen>>
  /\ Ready
  /\ deviceCodes' = SweepResult(deviceCodes, heap, now)
  /\ Silent
  /\ UNCHANGED <<now, inflight, hist>>
  /\ heap' = Collect(heap, deviceCodes', inflight')
  /\ Logged

\* the grant object of a device-code request: expiresAt and createdAt come from two
\* calls of Date.now(), which return t1 and then t2
NewGrant(userCode, t1, t2) ==
  [ userCode |-> userCode, status |-> "pending", userId |-> "null",
    apiKey |-> "null", expiresAt |-> t1 + GrantTTL, createdAt |-> t2 ]

\* what a second Date.now() may return when the first returned t: the clock is not
\* stopped while a handler runs
ClockReads(t) == IF t < MaxTicks * ClockStep THEN { t, t + ClockStep } ELSE { t }

\* the two deviceCodes.set calls of device-code
CreateResult(m, deviceCode, userCode, ref) ==
  MapSet(MapSet(m, deviceCode, GrantRef(ref)), UcKey(userCode), StrVal(deviceCode))

\* POST action=device-code
DeviceCode ==
  /\ UNCHANGED <<client, gen>>
  /\ Ready
  /\ Len(heap) < MaxGrants
  /\ \E rb \in RandomBytes32, r4 \in RandomBytes4x2, t2 \in ClockReads(now) :
       LET deviceCode == DeviceCodeOf[rb]
           userCode == UserCodeFor[r4]
           ref == Len(heap) + 1
       IN  /\ hist' = Append(hist, NewHist(deviceCode, userCode))
           /\ deviceCodes' = CreateResult(deviceCodes, deviceCode, userCode, ref)
           /\ resp' = Response("device-code", 200, "", deviceCode, ref, "null", "null")
           /\ now' = t2
           /\ UNCHANGED inflight
           /\ heap' = Collect(Append(heap, NewGrant(userCode, now, t2)),
                              deviceCodes', inflight')
  /\ Logged

\* the approval that forgets to link the API key
ApproveWriteNoKey(h, ref, user) ==
  [ h EXCEPT ![ref].status = "approved", ![ref].userId = user.id ]

\* entry.status = "approved"; entry.userId = user.id; entry.apiKey = user.apiKey
ApproveWrite(h, ref, user) ==
  [ h EXCEPT ![ref].status = "approved", ![ref].userId = user.id,
             ![ref].apiKey = user.apiKey ]

\* a denial that also unlinks the user: status, userId and apiKey are written
DenyWriteClearsKey(h, ref) ==
  [ h EXCEPT ![ref].status = "denied", ![ref].userId = "null", ![ref].apiKey = "null" ]

\* entry.status = "denied"
DenyWrite(h, ref) == [ h EXCEPT ![ref].status = "denied" ]

\* POST action=device-approve, up to `await authenticate(req)`
ApproveBegin ==
  /\ UNCHANGED <<client, gen>>
  /\ Ready
  /\ CanAccept
  /\ Suspend(AuthWait("approve_auth"))
  /\ Silent
  /\ UNCHANGED <<now, heap, deviceCodes, hist>>
  /\ Logged

\* device-approve without its `entry.status !== "pending"` guard
ApproveResultNoPendingGuard(m, h, t, user, raw) ==
  LET userCode == UserCodeOf[raw]
      deviceCode == MapGet(m, UcKey(userCode))
      entry == MapGet(m, deviceCode.str)
      Fail(status, err, ref) ==
        [ resp |-> Response("device-approve", status, err, userCode, ref, "null", user.id),
          heap |-> h ]
  IN  IF user = Null THEN Fail(401, "Login required to approve device", 0)
      ELSE IF userCode = EmptyStr THEN Fail(400, "user_code required", 0)
      ELSE IF ~Truthy(deviceCode) THEN Fail(404, "Invalid or expired code", 0)
      ELSE IF ~Truthy(entry) \/ GreaterThan(t, ExpiresAtOf(h, entry))
        THEN Fail(410, "Code expired", entry.ref)
      ELSE [ resp |-> Response("device-approve", 200, "", userCode, entry.ref, "null", user.id),
             heap |-> ApproveWrite(h, entry.ref, user) ]

\* device-approve without its `if (!userCode)` test
ApproveResultNoCodeCheck(m, h, t, user, raw) ==
  LET userCode == UserCodeOf[raw]
      deviceCode == MapGet(m, UcKey(userCode))
      entry == MapGet(m, deviceCode.str)
      Fail(status, err, ref) ==
        [ resp |-> Response("device-approve", status, err, userCode, ref, "null", user.id),
          heap |-> h ]
  IN  IF user = Null THEN Fail(401, "Login required to approve device", 0)
      ELSE IF ~Truthy(deviceCode) THEN Fail(404, "Invalid or expired code", 0)
      ELSE IF ~Truthy(entry) \/ GreaterThan(t, ExpiresAtOf(h, entry))
        THEN Fail(410, "Code expired", entry.ref)
      ELSE IF StatusOf(h, entry) # "pending" THEN Fail(409, "Code already used", entry.ref)
      ELSE [ resp |-> Response("device-approve", 200, "", userCode, entry.ref, "null", user.id),
             heap |-> ApproveWrite(h, entry.ref, user) ]

\* what device-approve answers once authenticate(req) has returned `user`:
\* the response and the heap it leaves
ApproveResult(m, h, t, user, raw) ==
  LET userCode == UserCodeOf[raw]
      deviceCode == MapGet(m, UcKey(userCode))
      entry == MapGet(m, deviceCode.str)
      Fail(status, err, ref) ==
        [ resp |-> Response("device-approve", status, err, userCode, ref, "null", user.id),
          heap |-> h ]
  IN  IF user = Null THEN Fail(401, "Login required to approve device", 0)
      ELSE IF userCode = EmptyStr THEN Fail(400, "user_code required", 0)
      ELSE IF ~Truthy(deviceCode) THEN Fail(404, "Invalid or expired code", 0)
      ELSE IF ~Truthy(entry) \/ GreaterThan(t, ExpiresAtOf(h, entry))
        THEN Fail(410, "Code expired", entry.ref)
      ELSE IF StatusOf(h, entry) # "pending" THEN Fail(409, "Code already used", entry.ref)
      ELSE [ resp |-> Response("device-approve", 200, "", userCode, entry.ref, "null", user.id),
             heap |-> ApproveWrite(h, entry.ref, user) ]

\* device-approve, from the return of authenticate(req) to the response
ApproveResume ==
  /\ UNCHANGED <<client, gen>>
  /\ Ready
  /\ Suspended(AuthWait("approve_auth"))
  /\ Resume(AuthWait("approve_auth"))
  /\ \E user \in Users \cup {Null}, raw \in RawUserCodes :
       LET r == ApproveResult(deviceCodes, heap, now, user, raw)
       IN  /\ resp' = r.resp
           /\ heap' = r.heap
  /\ UNCHANGED <<now, deviceCodes, hist>>
  /\ Logged

\* POST action=device-deny, up to `await authenticate(req)`
DenyBegin ==
  /\ UNCHANGED <<client, gen>>
  /\ Ready
  /\ CanAccept
  /\ Suspend(AuthWait("deny_auth"))
  /\ Silent
  /\ UNCHANGED <<now, heap, deviceCodes, hist>>
  /\ Logged

\* device-deny without its `if (!user)` test
DenyResultNoAuth(m, h, user, raw) ==
  LET userCode == UserCodeOf[raw]
      deviceCode == MapGet(m, UcKey(userCode))
      entry == MapGet(m, deviceCode.str)
  IN  IF FALSE
        THEN [ resp |-> Response("device-deny", 401, "Login required", userCode, 0,
                                 "null", user.id),
               heap |-> h ]
      ELSE IF Truthy(deviceCode) /\ Truthy(entry)
        THEN [ resp |-> Response("device-deny", 200, "", userCode, entry.ref, "null", user.id),
               heap |-> DenyWrite(h, entry.ref) ]
      ELSE [ resp |-> Response("device-deny", 200, "", userCode, 0, "null", user.id),
             heap |-> h ]

\* what device-deny answers once authenticate(req) has returned `user`
DenyResult(m, h, user, raw) ==
  LET userCode == UserCodeOf[raw]
      deviceCode == MapGet(m, UcKey(userCode))
      entry == MapGet(m, deviceCode.str)
  IN  IF user = Null
        THEN [ resp |-> Response("device-deny", 401, "Login required", userCode, 0,
                                 "null", user.id),
               heap |-> h ]
      ELSE IF Truthy(deviceCode) /\ Truthy(entry)
        THEN [ resp |-> Response("device-deny", 200, "", userCode, entry.ref, "null", user.id),
               heap |-> DenyWrite(h, entry.ref) ]
      ELSE [ resp |-> Response("device-deny", 200, "", userCode, 0, "null", user.id),
             heap |-> h ]

\* a device-deny that also drops the pairing-code index entry
DenyResumeUnindexing ==
  /\ UNCHANGED <<client, gen>>
  /\ Ready
  /\ Suspended(AuthWait("deny_auth"))
  /\ Resume(AuthWait("deny_auth"))
  /\ \E user \in Users \cup {Null}, raw \in RawUserCodes :
       LET r == DenyResult(deviceCodes, heap, user, raw)
       IN  /\ resp' = r.resp
           /\ heap' = r.heap
           /\ deviceCodes' = MapDelete(deviceCodes, UcKey(UserCodeOf[raw]))
  /\ UNCHANGED <<now, hist>>
  /\ Logged

\* device-deny, from the return of authenticate(req) to the response
DenyResume ==
  /\ UNCHANGED <<client, gen>>
  /\ Ready
  /\ Suspended(AuthWait("deny_auth"))
  /\ Resume(AuthWait("deny_auth"))
  /\ \E user \in Users \cup {Null}, raw \in RawUserCodes :
       LET r == DenyResult(deviceCodes, heap, user, raw)
       IN  /\ resp' = r.resp
           /\ heap' = r.heap
  /\ UNCHANGED <<now, deviceCodes, hist>>
  /\ Logged

\* deviceCodes.delete(deviceCode) of the expiry branch of device-token
ExpiredDelete(m, deviceCode) == MapDelete(m, deviceCode)

\* the clean-up done as deviceCodes.clear()
ConsumeDeleteAll(m, deviceCode, userCode) == << >>

\* the clean-up with one of its two deletes forgotten
ConsumeDeleteIndexOnly(m, deviceCode, userCode) == MapDelete(m, UcKey(userCode))
ConsumeDeletePrimaryOnly(m, deviceCode, userCode) == MapDelete(m, deviceCode)

\* deviceCodes.delete(deviceCode); deviceCodes.delete("uc:" + entry.userCode)
ConsumeDelete(m, deviceCode, userCode) ==
  MapDelete(MapDelete(m, deviceCode), UcKey(userCode))

\* device-token that deletes the grant when it answers a pending poll
TokenResultPendingDeletes(m, h, t, deviceCode) ==
  LET entry == MapGet(m, deviceCode)
      Answer(status, err, ref, map) ==
        [ resp |-> Response("device-token", status, err, deviceCode, ref, "null", "null"),
          map |-> map, wait |-> EmptyBag ]
  IN  IF deviceCode = EmptyStr THEN Answer(400, "device_code required", 0, m)
      ELSE IF ~Truthy(entry) THEN Answer(410, "expired_token", 0, m)
      ELSE IF GreaterThan(t, ExpiresAtOf(h, entry))
        THEN Answer(410, "expired_token", entry.ref, ExpiredDelete(m, deviceCode))
      ELSE IF StatusOf(h, entry) = "denied"
        THEN Answer(403, "access_denied", entry.ref,
                    ConsumeDelete(m, deviceCode, h[entry.ref].userCode))
      ELSE IF StatusOf(h, entry) = "pending"
        THEN Answer(428, "authorization_pending", entry.ref, ExpiredDelete(m, deviceCode))
      ELSE IF StatusOf(h, entry) = "approved"
        THEN [ resp |-> NoResponse, map |-> m,
               wait |-> SetToBag({ Handler("token_user", deviceCode, entry.ref, "none") }) ]
      ELSE Answer(500, "Unknown state", 0, m)

\* device-token up to its first await: the response (none when it goes on to the
\* profile lookup), the Map it leaves and the handler it suspends
TokenResult(m, h, t, deviceCode) ==
  LET entry == MapGet(m, deviceCode)
      Answer(status, err, ref, map) ==
        [ resp |-> Response("device-token", status, err, deviceCode, ref, "null", "null"),
          map |-> map, wait |-> EmptyBag ]
  IN  IF deviceCode = EmptyStr THEN Answer(400, "device_code required", 0, m)
      ELSE IF ~Truthy(entry) THEN Answer(410, "expired_token", 0, m)
      ELSE IF GreaterThan(t, ExpiresAtOf(h, entry))
        THEN Answer(410, "expired_token", entry.ref, ExpiredDelete(m, deviceCode))
      ELSE IF StatusOf(h, entry) = "denied"
        THEN Answer(403, "access_denied", entry.ref,
                    ConsumeDelete(m, deviceCode, h[entry.ref].userCode))
      ELSE IF StatusOf(h, entry) = "pending"
        THEN Answer(428, "authorization_pending", entry.ref, m)
      ELSE IF StatusOf(h, entry) = "approved"
        THEN [ resp |-> NoResponse, map |-> m,
               wait |-> SetToBag({ Handler("token_user", deviceCode, entry.ref, "none") }) ]
      ELSE Answer(500, "Unknown state", 0, m)

\* POST action=device-token, up to `await prisma.user.findUnique(...)`
TokenBegin ==
  /\ UNCHANGED <<client, gen>>
  /\ Ready
  /\ \E deviceCode \in RawDeviceCodes :
       LET r == TokenResult(deviceCodes, heap, now, deviceCode)
       IN  /\ r.wait # EmptyBag => CanAccept
           /\ resp' = r.resp
           /\ deviceCodes' = r.map
           /\ inflight' = inflight (+) r.wait
  /\ hist' = Record(hist, resp')
  /\ UNCHANGED now
  /\ heap' = Collect(heap, deviceCodes', inflight')
  /\ Logged

\* the outcomes of `await prisma.user.findUnique(...)`: the row, null, or a rejection
UserLookups == { "found", "null", "throw" }
\* the outcomes of `await prisma.workspaceMember.findMany(...)`: a list, or a rejection
WorkspaceLookups == { "found", "throw" }

\* an exception thrown out of device-token: the request fails
TokenException(x, cause) ==
  Response("device-token", 500, cause, x.deviceCode, x.entry, "null", "null")

\* device-token: `await prisma.user.findUnique({ where: { id: entry.userId } })` returns
TokenUserLookup(x) ==
  /\ UNCHANGED <<client, gen>>
  /\ Ready
  /\ Suspended(x)
  /\ x.at = "token_user"
  /\ \E outcome \in UserLookups :
       IF outcome = "throw" THEN
         /\ Resume(x)
         /\ resp' = TokenException(x, "findUnique rejected")
       ELSE
         /\ inflight' = (inflight (-) SetToBag({x})) (+)
              SetToBag({ Handler("token_ws", x.deviceCode, x.entry,
                                 IF outcome = "found" THEN heap[x.entry].userId ELSE "null") })
         /\ Silent
  /\ UNCHANGED <<now, deviceCodes, hist>>
  /\ heap' = Collect(heap, deviceCodes', inflight')
  /\ Logged

\* device-token: `await prisma.workspaceMember.findMany(...)` returns, to the response
TokenWsLookup(x) ==
  /\ UNCHANGED <<client, gen>>
  /\ Ready
  /\ Suspended(x)
  /\ x.at = "token_ws"
  /\ Resume(x)
  /\ \E outcome \in WorkspaceLookups :
       LET entry == heap[x.entry]
       IN  IF outcome = "throw" THEN
             /\ resp' = TokenException(x, "findMany rejected")
             /\ UNCHANGED <<deviceCodes, hist>>
           ELSE
             /\ deviceCodes' = ConsumeDelete(deviceCodes, x.deviceCode, entry.userCode)
             /\ IF x.approvedUser = "null" THEN
                  \* approvedUser.id: TypeError, after the two deletes
                  /\ resp' = TokenException(x, "TypeError: approvedUser is null")
                ELSE
                  /\ resp' = Response("device-token", 200, "", x.deviceCode, x.entry,
                                      entry.apiKey, x.approvedUser)
             /\ hist' = Record(hist, resp')
  /\ UNCHANGED now
  /\ heap' = Collect(heap, deviceCodes', inflight')
  /\ Logged

Next ==
  \/ Tick
  \/ Sweep
  \/ DeviceCode
  \/ ApproveBegin
  \/ ApproveResume
  \/ DenyBegin
  \/ DenyResume
  \/ TokenBegin
  \/ \E x \in BagToSet(inflight) : TokenUserLookup(x)
  \/ \E x \in BagToSet(inflight) : TokenWsLookup(x)
  \/ Deliver

Spec == Init /\ [][Next]_vars

-----------------------------------------------------------------------------
(* What the properties speak of *)

\* the grant objects the Map holds
StoredRefs == { deviceCodes[k].ref : k \in { x \in DOMAIN deviceCodes : deviceCodes[x].kind = "grant" } }

\* the grant the Map holds under device code d, or 0
GrantAt(d) == IF d \in DOMAIN deviceCodes /\ deviceCodes[d].kind = "grant" THEN deviceCodes[d].ref ELSE 0

\* expiresAt of grant object r has passed
Expired(r) == now > heap[r].expiresAt

\* this step is a device-token request answered before any await
TokenAnswered == resp'.op = "device-token" /\ inflight' = inflight

\* this step is a device-token request answered after its profile lookups
TokenCompleted == resp'.op = "device-token" /\ inflight' # inflight

Issued(r) == r.op = "device-token" /\ r.status = 200
ExpiredToken(r) == r.op = "device-token" /\ r.status = 410 /\ r.error = "expired_token"
AccessDenied(r) == r.op = "device-token" /\ r.status = 403 /\ r.error = "access_denied"
AuthorizationPending(r) == r.op = "device-token" /\ r.status = 428

-----------------------------------------------------------------------------
(* C1 *)

\* C1: concurrent device-token calls on one approved, unexpired grant: no credential
\* is issued twice for one grant (at most one call is answered Issued).
C1_IssuedAtMostOnce == \A r \in 1..Len(hist) : hist[r].issued <= 1

-----------------------------------------------------------------------------
(* C5 *)

\* C5: a device-token request whose non-empty device_code is not the device code of
\* any grant device-code ever returned (including a value equal to a "uc:" index key)
\* is answered Expired and nothing else.
C5_UnknownCodeExpired ==
  ( /\ resp.op = "device-token"
    /\ resp.arg # EmptyStr
    /\ \A r \in 1..Len(hist) : hist[r].deviceCode # resp.arg )
  => ExpiredToken(resp)

-----------------------------------------------------------------------------
(* C7 *)

\* C7: once the status of a grant has left pending it never changes again: no
\* approved -> denied, no denied -> approved, no return to pending.
C7_StatusFinal ==
  [][ \A r \in 1..Len(heap) :
        (heap[r].status \in {"approved", "denied"} /\ heap'[r].status # "collected")
        => heap'[r].status = heap[r].status ]_vars

-----------------------------------------------------------------------------
(* C8 *)

\* C8: in every state the pairing-code index entry of a grant is in the Map if and only
\* if the grant's record is: every stored grant has its "uc:" entry, and every "uc:"
\* entry names a device code that is stored.
C8_IndexIffPrimary ==
  /\ \A r \in StoredRefs : UcKey(heap[r].userCode) \in DOMAIN deviceCodes
  /\ \A k \in DOMAIN deviceCodes :
       deviceCodes[k].kind = "string" => deviceCodes[k].str \in DOMAIN deviceCodes

-----------------------------------------------------------------------------
(* C9 *)

\* C9: after one sweep cycle at time now, a grant whose expiresAt is before now is
\* resolved neither by its device code nor by its pairing code.
C9_SweepRemovesBoth ==
  [][ Sweep =>
        \A d \in DOMAIN deviceCodes :
          (GrantAt(d) # 0 /\ Expired(GrantAt(d)))
          => /\ d \notin DOMAIN deviceCodes'
             /\ UcKey(heap[GrantAt(d)].userCode) \notin DOMAIN deviceCodes' ]_vars

-----------------------------------------------------------------------------
(* C10 *)

\* C10: a device-code request that generates a device code or a pairing code already
\* in the Map fails (CodeCollision) and leaves the Map as it was.
C10_CollisionRejected ==
  [][ ( /\ resp'.op = "device-code"
        /\ \/ resp'.arg \in DOMAIN deviceCodes
           \/ UcKey(hist'[resp'.ref].userCode) \in DOMAIN deviceCodes )
      => (resp'.status # 200 /\ deviceCodes' = deviceCodes) ]_vars

-----------------------------------------------------------------------------
(* C2 *)

\* the last grant object created with device code d, or 0
LastGrantOf(d) ==
  LET rs == { r \in 1..Len(hist) : hist[r].deviceCode = d }
  IN  IF rs = {} THEN 0 ELSE CHOOSE r \in rs : \A q \in rs : q <= r

\* this step suspends a new device-token handler holding grant object r
NewlySuspended(r) ==
  \E x \in BagToSet(inflight') :
    x.entry = r /\ x.at = "token_user" /\ CopiesIn(x, inflight') > CopiesIn(x, inflight)

\* the ways the profile lookups of device-token fail
LookupFailures ==
  { "findUnique rejected", "findMany rejected", "TypeError: approvedUser is null" }

-----------------------------------------------------------------------------
(* C3 *)

\* C3: a grant created and then denied, redeemed before its expiresAt: device-token
\* on a denied, unexpired grant is answered AccessDenied and takes both the grant and
\* its "uc:" index entry out of the Map; AccessDenied is answered at most once for a
\* grant; and every device-token that starts afterwards on that device code is
\* answered Expired.
C3_DeniedThenExpired ==
  [][ /\ \A d \in DOMAIN deviceCodes :
           LET r == GrantAt(d)
           IN  (r # 0 /\ ~Expired(r) /\ heap[r].status = "denied")
               => /\ ~NewlySuspended(r)
                  /\ (TokenAnswered /\ resp'.arg = d)
                       => /\ AccessDenied(resp')
                          /\ resp'.ref = r
                          /\ d \notin DOMAIN deviceCodes'
                          /\ UcKey(heap[r].userCode) \notin DOMAIN deviceCodes'
      /\ \A r \in 1..Len(hist') : hist'[r].denied <= 1
      /\ \A d \in AllDeviceCodes :
           (LastGrantOf(d) # 0 /\ hist[LastGrantOf(d)].denied >= 1 /\ Len(hist') = Len(hist))
           => /\ ~NewlySuspended(LastGrantOf(d))
              /\ (TokenAnswered /\ resp'.arg = d) => (ExpiredToken(resp') /\ resp'.ref = 0)
    ]_vars

\* a device-token was answered Expired for a device code whose grant had been
\* answered AccessDenied, and neither of its keys is in the Map
C3_Witness ==
  /\ ExpiredToken(resp)
  /\ LastGrantOf(resp.arg) # 0
  /\ hist[LastGrantOf(resp.arg)].denied = 1
  /\ resp.arg \notin DOMAIN deviceCodes
  /\ UcKey(hist[LastGrantOf(resp.arg)].userCode) \notin DOMAIN deviceCodes

-----------------------------------------------------------------------------
(* C4 *)

\* C4: a device-token that starts when the expiresAt of the stored grant has passed is
\* answered Expired whatever the grant's status: it is not taken to the profile lookup
\* (never Issued), and not answered AccessDenied or AuthorizationPending.
C4_ExpiredWhateverStatus ==
  [][ \A d \in DOMAIN deviceCodes :
        (GrantAt(d) # 0 /\ Expired(GrantAt(d)))
        => /\ ~NewlySuspended(GrantAt(d))
           /\ (TokenAnswered /\ resp'.arg = d)
                => (ExpiredToken(resp') /\ resp'.ref = GrantAt(d)) ]_vars

\* a device-token found a stored grant past its expiresAt and was answered Expired
C4_Witness ==
  ExpiredToken(resp) /\ resp.ref # 0 /\ hist[resp.ref].deviceCode = resp.arg

-----------------------------------------------------------------------------
(* C6 *)

\* the grant object the Map resolves pairing code c to, or 0
GrantOfUserCode(c) ==
  IF UcKey(c) \in DOMAIN deviceCodes THEN GrantAt(deviceCodes[UcKey(c)].str) ELSE 0

\* C6: approving twice: device-approve by an authenticated caller on a code whose
\* grant is stored, unexpired and no longer pending fails with AlreadyUsed (409) and
\* changes nothing; an approve succeeds only on a pending grant, which it leaves
\* approved by its caller; a status never returns to pending; and the userId and apiKey
\* of a grant, once set, are never overwritten.
C6_ApproveOnce ==
  [][ /\ LET r == GrantOfUserCode(resp'.arg)
         IN  ( /\ resp'.op = "device-approve"
               /\ resp'.userId # Null.id
               /\ r # 0
               /\ ~Expired(r)
               /\ heap[r].status # "pending" )
             => (resp'.status = 409 /\ resp'.ref = r /\ heap' = heap /\ deviceCodes' = deviceCodes)
      /\ (resp'.op = "device-approve" /\ resp'.status = 200)
           => /\ heap[resp'.ref].status = "pending"
              /\ heap'[resp'.ref].status = "approved"
              /\ heap'[resp'.ref].userId = resp'.userId
              /\ \E u \in Users : u.id = resp'.userId /\ heap'[resp'.ref].apiKey = u.apiKey
      /\ \A r \in 1..Len(heap) :
           /\ (heap[r].status # "pending" => heap'[r].status # "pending")
           /\ (heap[r].userId # Null.id /\ heap'[r].status # "collected")
                => (heap'[r].userId = heap[r].userId /\ heap'[r].apiKey = heap[r].apiKey)
    ]_vars

\* a second approve, by another user, was answered AlreadyUsed and the grant is still
\* approved by the first
C6_Witness ==
  /\ resp.op = "device-approve"
  /\ resp.status = 409
  /\ heap[resp.ref].status = "approved"
  /\ heap[resp.ref].userId # resp.userId
  /\ resp.userId # Null.id

-----------------------------------------------------------------------------
(* C11 *)

\* C11: no two grants in the Map have the same pairing code, and every "uc:" index
\* entry holds the device code of the grant that was created with that pairing code.
C11_PairingCodeUnique ==
  /\ \A r1, r2 \in StoredRefs : r1 # r2 => heap[r1].userCode # heap[r2].userCode
  /\ \A k \in DOMAIN deviceCodes :
       deviceCodes[k].kind = "string"
       => \E r \in 1..Len(hist) :
            hist[r].deviceCode = deviceCodes[k].str /\ UcKey(hist[r].userCode) = k

-----------------------------------------------------------------------------
(* C13 *)

\* an approve by an authenticated caller with a non-empty code is answered in this step
ApproveAnswered ==
  resp'.op = "device-approve" /\ resp'.userId # Null.id /\ resp'.arg # EmptyStr

\* C13: what device-approve answers an authenticated caller for a pairing code:
\* NotFound (404) exactly when the Map resolves the code to no grant, Expired (410)
\* exactly when it resolves to a grant past its expiresAt, AlreadyUsed (409) exactly
\* when it resolves to an unexpired grant that is not pending, success only for an
\* unexpired pending grant; and a failing approve leaves the Map and the grants as
\* they were.
C13_ApproveOutcomes ==
  [][ ApproveAnswered =>
        LET r == GrantOfUserCode(resp'.arg)
        IN  /\ resp'.status = 404 <=> r = 0
            /\ resp'.status = 410 <=> (r # 0 /\ Expired(r))
            /\ resp'.status = 409 <=> (r # 0 /\ ~Expired(r) /\ heap[r].status # "pending")
            /\ resp'.status = 200 => (r # 0 /\ ~Expired(r) /\ heap[r].status = "pending")
            /\ resp'.status # 200 => (heap' = heap /\ deviceCodes' = deviceCodes)
    ]_vars

-----------------------------------------------------------------------------
(* C14 *)

\* C14: device-deny by an authenticated caller always answers success, and when the
\* code resolves to no grant, or to a grant past its expiresAt, it changes nothing in
\* the Map or in the grants.
C14_DenyGuarded ==
  [][ (resp'.op = "device-deny" /\ resp'.userId # Null.id) =>
        LET r == GrantOfUserCode(resp'.arg)
        IN  /\ resp'.status = 200
            /\ (r = 0 \/ Expired(r)) => (heap' = heap /\ deviceCodes' = deviceCodes)
    ]_vars

-----------------------------------------------------------------------------
(* C15 *)

-----------------------------------------------------------------------------
(* C16 *)

\* C16: device-token on a stored, unexpired, pending grant is answered
\* AuthorizationPending and changes neither the Map (the grant's key and its "uc:"
\* index entry) nor any grant record (status, expiresAt and the rest).
C16_PendingPollChangesNothing ==
  [][ \A d \in DOMAIN deviceCodes :
        LET r == GrantAt(d)
        IN  (r # 0 /\ ~Expired(r) /\ heap[r].status = "pending" /\ TokenAnswered /\ resp'.arg = d)
            => /\ AuthorizationPending(resp')
               /\ resp'.ref = r
               /\ deviceCodes' = deviceCodes
               /\ heap' = heap
               /\ inflight' = inflight
    ]_vars

\* a poll was answered AuthorizationPending and the grant and its index entry are
\* still in the Map
C16_Witness ==
  /\ AuthorizationPending(resp)
  /\ GrantAt(resp.arg) = resp.ref
  /\ heap[resp.ref].status = "pending"
  /\ UcKey(heap[resp.ref].userCode) \in DOMAIN deviceCodes

-----------------------------------------------------------------------------
(* C17 *)

\* C17: the expiresAt of a grant is createdAt plus 10 minutes when the grant is
\* created, and no later step changes it.
C17_ExpiresAtFixed ==
  [][ \A r \in 1..Len(heap') :
        /\ r > Len(heap) => heap'[r].expiresAt = heap'[r].createdAt + GrantTTL
        /\ (r <= Len(heap) /\ heap'[r].status # "collected")
             => heap'[r].expiresAt = heap[r].expiresAt
    ]_vars

-----------------------------------------------------------------------------
(* C12 *)

\* the server when no client polls, approves or denies: grants are created, time
\* passes and the sweep runs
SweepNext == Tick \/ Sweep \/ DeviceCode \/ Deliver

\* setInterval keeps firing, the clock keeps advancing (up to the last clock value of
\* the model) and a response that was produced is sent
SweepSpec ==
  Init /\ [][SweepNext]_vars /\ WF_vars(Tick) /\ WF_vars(Sweep) /\ WF_vars(Deliver)

\* the keys in the Map that belong to a grant past its expiresAt: the key of the grant
\* record, and the "uc:" index entry whose grant is past its expiresAt or gone
StaleKeys ==
  { k \in DOMAIN deviceCodes :
      IF deviceCodes[k].kind = "string"
      THEN GrantAt(deviceCodes[k].str) = 0 \/ Expired(GrantAt(deviceCodes[k].str))
      ELSE Expired(deviceCodes[k].ref) }

\* C12: with the clock advancing and the sweep firing again and again, and no client
\* polling, the entries of a grant past its expiresAt do not stay: whenever the Map
\* holds a key of an expired grant (its device code or its "uc:" index entry), a
\* later state holds none.
C12_ExpiredEventuallyGone == (StaleKeys # {}) ~> (StaleKeys = {})

-----------------------------------------------------------------------------
(* The client: login() of cli.js *)

\* (deviceRes.interval || 5), (deviceRes.expires_in || 600), * 1000
DefaultInterval == 5
DefaultExpiresIn == 600
MsPerSecond == 1000

\* the expires_in and interval a device-code response may carry; 0 stands for every
\* falsy value (0, null, a missing field)
ExpiresInValues == { 0, 7, 10, 12 }
IntervalValues == { 0, 3, 5 }

\* v || d
OrDefault(v, d) == IF v = 0 THEN d ELSE v

\* the attempt budget computed as floor + 1
CeilAsFloorPlusOne(a, b) == (a \div b) + 1

\* the attempt budget rounded down
CeilAsFloor(a, b) == a \div b

\* Math.ceil(a / b) for positive integers
Ceil(a, b) == IF a % b = 0 THEN a \div b ELSE (a \div b) + 1

\* the credentials files a run may find: none, "{}" as logout leaves it, a saved login
CredStores == { NoFile, CredsObject("", ""), CredsObject("hs_old", "u0") }

\* what `await fetch(...)` and `await r.json()` of one poll may give: a rejection
\* (status 0), or a status with a body: not JSON, the JSON null, an object without
\* api_key, the payload of device-token (api_key, user, workspaces), or an object
\* with api_key and no user
TransportError == [ status |-> 0, body |-> "none" ]
PollStatuses == { 200, 403, 410, 428, 500 }
PollBodies == { "unparseable", "null", "object", "issued", "issued_no_user" }
PollResponses ==
  { TransportError } \cup { [ status |-> st, body |-> b ] : st \in PollStatuses, b \in PollBodies }

\* r.ok
Ok(r) == r.status >= 200 /\ r.status <= 299

\* process.exit(code) after the message, or return (the process ends with code 0)
Exit(c, message, code) == [ c EXCEPT !.pc = "done", !.message = message, !.exit = code ]

\* a catch that gives the attempt back: errors are retried without counting
CaughtUncounted(c) == [ c EXCEPT !.pc = "loop", !.attempt = @ - 1 ]

\* catch (err) { process.stdout.write("x") }: the loop goes on
Caught(c) == [ c EXCEPT !.pc = "loop" ]

\* saveCredentials({ api_key: data.api_key, user: data.user, ... })
SaveCredentials(c, r) ==
  [ c EXCEPT !.creds = CredsObject("hs_u1", IF r.body = "issued" THEN "u1" ELSE "") ]

\* the body of the try block for the poll response r; save is what writeFileSync does
PollResult(c, r, save) ==
  IF r = TransportError THEN Caught(c)
  ELSE IF r.body = "unparseable" THEN Caught(c)
  ELSE IF r.status = 428 THEN [ c EXCEPT !.pc = "loop" ]
  ELSE IF r.status = 403 THEN Exit(c, "denied", "1")
  ELSE IF r.status = 410 THEN Exit(c, "expired", "1")
  ELSE IF Ok(r) /\ r.body = "null" THEN Caught(c)
  ELSE IF Ok(r) /\ r.body \in { "issued", "issued_no_user" }
    THEN IF save = "throw" THEN Caught(c)
         ELSE IF r.body = "issued_no_user" THEN Caught(SaveCredentials(c, r))
         ELSE Exit(SaveCredentials(c, r), "success", "0")
  ELSE Exit(c, "unexpected", "1")

\* login(): const existing = loadCredentials(); if (existing?.api_key) ... return
LoginStart ==
  /\ client.pc = "start"
  /\ client' = IF client.creds.api_key # ""
               THEN Exit(client, "already", "0")
               ELSE [ client EXCEPT !.pc = "request" ]
  /\ UNCHANGED <<now, heap, deviceCodes, inflight, resp, hist, gen, race>>

\* Step 1: request the device code; then pollInterval and maxAttempts
RequestDeviceCode ==
  /\ client.pc = "request"
  /\ \/ \E failure \in { "connection", "device_code_failed" } :
          client' = Exit(client, failure, "1")
     \/ \E e \in ExpiresInValues, i \in IntervalValues :
          client' = [ client EXCEPT
                        !.pc = "loop", !.expires_in = e, !.interval = i,
                        !.pollInterval = OrDefault(i, DefaultInterval) * MsPerSecond,
                        !.maxAttempts = Ceil(OrDefault(e, DefaultExpiresIn),
                                             OrDefault(i, DefaultInterval)),
                        !.attempt = 0 ]
  /\ UNCHANGED <<now, heap, deviceCodes, inflight, resp, hist, gen, race>>

\* while (attempt < maxAttempts) { attempt++; ... } and what follows the loop
LoopTest ==
  /\ client.pc = "loop"
  /\ client' = IF client.attempt < client.maxAttempts
               THEN [ client EXCEPT !.pc = "sleep", !.attempt = @ + 1 ]
               ELSE Exit(client, "timeout", "1")
  /\ UNCHANGED <<now, heap, deviceCodes, inflight, resp, hist, gen, race>>

\* an iteration that goes to its fetch without waiting
SleepOmitted ==
  /\ client.pc = "sleep"
  /\ client' = [ client EXCEPT !.pc = "fetch" ]
  /\ UNCHANGED <<now, heap, deviceCodes, inflight, resp, hist, gen, race>>

\* await new Promise(r => setTimeout(r, pollInterval))
Sleep ==
  /\ client.pc = "sleep"
  /\ client' = [ client EXCEPT !.pc = "fetch", !.sleeps = @ + 1 ]
  /\ UNCHANGED <<now, heap, deviceCodes, inflight, resp, hist, gen, race>>

\* the device-token request of one iteration and the branch on its response
Poll ==
  /\ client.pc = "fetch"
  /\ \E r \in PollResponses, save \in { "ok", "throw" } :
       client' = PollResult([ client EXCEPT !.calls = @ + 1, !.last = r,
                                !.onlyErrors = @ /\ r = TransportError ],
                            r, save)
  /\ UNCHANGED <<now, heap, deviceCodes, inflight, resp, hist, gen, race>>

\* deleteCredentials / logout: writeFileSync(CRED_FILE, "{}") inside try {} catch {}
DeleteCredentials(creds, write) ==
  IF write = "throw" THEN creds ELSE CredsObject("", "")

\* `hyperstack-core logout`, run before the login: "Not logged in" when
\* loadCredentials() returns null, else the write (which may fail) and "Logged out"
Logout ==
  /\ client.pc = "start"
  /\ ~client.loggedOut
  /\ \E write \in { "ok", "throw" } :
       client' = [ client EXCEPT
                     !.loggedOut = TRUE,
                     !.creds = IF @ = NoFile THEN @ ELSE DeleteCredentials(@, write) ]
  /\ UNCHANGED <<now, heap, deviceCodes, inflight, resp, hist, gen, race>>

LoginNext == LoginStart \/ RequestDeviceCode \/ LoopTest \/ Sleep \/ Poll \/ Logout

LoginInit ==
  /\ ServerInit
  /\ client \in { ClientAt(creds) : creds \in CredStores }
  /\ gen = NoCode
  /\ race = NotObserved

\* every timer fires and every fetch settles: the run always takes its next step
LoginSpec == LoginInit /\ [][LoginNext]_vars /\ WF_vars(LoginNext)

-----------------------------------------------------------------------------
(* C18 *)

\* the run got its device code and entered the poll loop
Polling == client.message \notin { "already", "connection", "device_code_failed" } /\ client.pc \notin { "start", "request" }

\* the expires_in and interval the run works with
EffectiveExpiresIn == OrDefault(client.expires_in, DefaultExpiresIn)
EffectiveInterval == OrDefault(client.interval, DefaultInterval)

\* the response was read and is one that ends the login: 403, 410, or 2xx with api_key
Parsed(r) == r # TransportError /\ r.body # "unparseable"
Terminal(r) ==
  /\ Parsed(r)
  /\ \/ r.status \in { 403, 410 }
     \/ (Ok(r) /\ r.body \in { "issued", "issued_no_user" })

\* C18: whatever the server answers, the poll loop makes at most
\* ceil(expires_in / interval) device-token calls (calls <= ceil(e / i), that is
\* (calls - 1) * i < e) and the run ends; it ends with the time-out message exactly
\* when that budget is used up, in which case the last response was not a 410: the
\* time-out is reported as "timeout" and the server's 410 as "expired".
C18_BoundedPolls ==
  /\ [](Polling =>
          /\ client.calls > 0 => (client.calls - 1) * EffectiveInterval < EffectiveExpiresIn
          /\ client.message = "timeout"
               => /\ client.calls * EffectiveInterval >= EffectiveExpiresIn
                  /\ client.exit = "1"
                  /\ ~(Parsed(client.last) /\ client.last.status = 410)
          /\ client.message = "expired"
               => (Parsed(client.last) /\ client.last.status = 410))
  /\ <>(client.pc = "done")

\* a run that used its whole budget of 120 polls and timed out
C18_Witness ==
  /\ client.pc = "done"
  /\ client.message = "timeout"
  /\ client.expires_in = 0
  /\ client.interval = 0
  /\ client.calls = 120

-----------------------------------------------------------------------------
(* C19 *)

\* C19: a poll that fails in transport is handled like one answered 428: the loop
\* goes on and the poll has used one attempt (attempt counts the polls made); a run
\* whose polls all failed in transport ends with the time-out message after exactly
\* ceil(expires_in / interval) polls, never with success, denied or expired.
C19_TransportErrorCounts ==
  /\ [][ (client.pc = "fetch" /\ (client'.last = TransportError \/ (Parsed(client'.last) /\ client'.last.status = 428)))
           => /\ client'.pc = "loop"
              /\ client'.attempt = client.attempt
              /\ client'.calls = client.calls + 1
              /\ client'.creds = client.creds ]_vars
  /\ [](Polling =>
          /\ client.attempt = client.calls + (IF client.pc \in { "sleep", "fetch" } THEN 1 ELSE 0)
          /\ (client.pc = "done" /\ client.onlyErrors)
               => /\ client.message = "timeout"
                  /\ client.calls = Ceil(EffectiveExpiresIn, EffectiveInterval))

\* a run in which every poll failed in transport, timed out after ceil(7 / 3) polls
C19_Witness ==
  /\ client.pc = "done"
  /\ client.onlyErrors
  /\ client.message = "timeout"
  /\ client.expires_in = 7
  /\ client.interval = 3
  /\ client.calls = 3

-----------------------------------------------------------------------------
(* C20 *)

\* C20: a poll answered 403, 410 or 2xx with an api_key is the last poll of the run:
\* 403 ends it with the denied message, 410 with the expired message and the
\* credential with success, whether or not saving or printing the credential works.
C20_TerminalResponseEndsRun ==
  [][ (client.pc = "fetch" /\ Terminal(client'.last))
        => /\ client'.pc = "done"
           /\ client'.message = ( IF client'.last.status = 403 THEN "denied"
                                  ELSE IF client'.last.status = 410 THEN "expired"
                                  ELSE "success" ) ]_vars

-----------------------------------------------------------------------------
(* C21 *)

-----------------------------------------------------------------------------
(* C22 *)

\* C22: device-approve and device-deny from a caller authenticate(req) does not know
\* are answered 401 and change neither the Map nor any grant, whatever the code
\* supplied and whatever the state of the grant it names.
C22_UnauthenticatedRejected ==
  [][ (resp'.op \in { "device-approve", "device-deny" } /\ resp'.userId = Null.id)
        => /\ resp'.status = 401
           /\ heap' = heap
           /\ deviceCodes' = deviceCodes ]_vars

\* a deny without login named a grant that is stored and pending, and was answered 401
C22_Witness ==
  /\ resp.op = "device-deny"
  /\ resp.status = 401
  /\ GrantOfUserCode(resp.arg) # 0
  /\ heap[GrantOfUserCode(resp.arg)].status = "pending"

-----------------------------------------------------------------------------
(* C23 *)

\* C23: a stored grant has a userId and an apiKey exactly when its status is approved;
\* pending and denied grants have neither.
C23_ApproverIffApproved ==
  \A r \in StoredRefs :
    /\ heap[r].userId # Null.id <=> heap[r].status = "approved"
    /\ heap[r].apiKey # Null.apiKey <=> heap[r].status = "approved"

-----------------------------------------------------------------------------
(* C24 *)

\* the device-token handlers suspended at a profile lookup
TokenHandlers == { x \in BagToSet(inflight) : x.at \in { "token_user", "token_ws" } }

\* this step resumes the suspended handler x
Resumed(x) == CopiesIn(x, inflight') < CopiesIn(x, inflight)

\* C24: a sweep that runs while a device-token is suspended at a profile lookup:
\* it leaves the grant record the handler holds as it was (so what the handler answers
\* does not depend on the sweep); the handler's clean-up after the sweep leaves the Map
\* that the sweep after the clean-up would leave (so the interleaving equals the
\* redeem followed by the sweep); and a device-token that returns from its lookups
\* fails with an internal error only when a lookup failed, never because its grant is
\* no longer in the Map.
C24_SweepCommutesWithRedeem ==
  [][ /\ Sweep
           => \A x \in TokenHandlers :
                /\ heap'[x.entry] = heap[x.entry]
                /\ ConsumeDelete(deviceCodes', x.deviceCode, heap'[x.entry].userCode)
                     = SweepResult(ConsumeDelete(deviceCodes, x.deviceCode, heap[x.entry].userCode),
                                   heap, now)
      /\ \A x \in TokenHandlers :
           (Resumed(x) /\ x.at = "token_ws" /\ resp'.error \notin LookupFailures)
           => /\ Issued(resp')
              /\ resp'.apiKey = heap[x.entry].apiKey
              /\ resp'.apiKey # Null.apiKey
              /\ x.deviceCode \notin DOMAIN deviceCodes'
              /\ UcKey(heap[x.entry].userCode) \notin DOMAIN deviceCodes'
    ]_vars

\* a device-token is suspended at its second lookup, its grant is past expiresAt and
\* the sweep has taken the grant's key out of the Map, the index entry being left
C24_Witness ==
  \E x \in TokenHandlers :
    /\ x.at = "token_ws"
    /\ Expired(x.entry)
    /\ x.deviceCode \notin DOMAIN deviceCodes
    /\ UcKey(heap[x.entry].userCode) \in DOMAIN deviceCodes

-----------------------------------------------------------------------------
(* C26 *)

\* the step is an approve, a deny or a device-token that works on the stored grant r
DirectedAt(r) ==
  \/ resp'.op \in { "device-approve", "device-deny" } /\ GrantOfUserCode(resp'.arg) = r
  \/ TokenAnswered /\ GrantAt(resp'.arg) = r
  \/ \E x \in TokenHandlers : Resumed(x) /\ x.entry = r

\* C26: an approve, deny or device-token that works on one stored grant leaves every
\* other stored grant with another device code and another pairing code as it was: its
\* record, its key and its "uc:" index entry.
C26_OtherGrantUntouched ==
  [][ \A r, q \in StoredRefs :
        ( /\ r # q
          /\ hist[r].deviceCode # hist[q].deviceCode
          /\ hist[r].userCode # hist[q].userCode
          /\ DirectedAt(r) )
        => /\ heap'[q] = heap[q]
           /\ MapGet(deviceCodes', hist[q].deviceCode) = MapGet(deviceCodes, hist[q].deviceCode)
           /\ MapGet(deviceCodes', UcKey(hist[q].userCode))
                = MapGet(deviceCodes, UcKey(hist[q].userCode))
    ]_vars

\* one grant was redeemed (Issued) and another grant, with other codes, is still
\* stored, pending, with its index entry
C26_Witness ==
  /\ Issued(resp)
  /\ \E q \in StoredRefs :
       /\ hist[q].deviceCode # resp.arg
       /\ hist[q].userCode # hist[resp.ref].userCode
       /\ heap[q].status = "pending"
       /\ MapGet(deviceCodes, UcKey(hist[q].userCode)) = StrVal(hist[q].deviceCode)

-----------------------------------------------------------------------------
(* C28 *)

\* C28: a device-code request adds one grant to the Map, pending, with userId and
\* apiKey null, and the index entry from its pairing code to its device code; the
\* expires_in it returns (600 s) is the lifetime of the grant, expiresAt - createdAt.
C28_BeginPairing ==
  [][ resp'.op = "device-code" =>
        LET r == resp'.ref
        IN  /\ resp'.status = 200
            /\ StoredRefs' = StoredRefs \cup {r}
            /\ r \notin StoredRefs
            /\ MapGet(deviceCodes', resp'.arg) = GrantRef(r)
            /\ MapGet(deviceCodes', UcKey(heap'[r].userCode)) = StrVal(resp'.arg)
            /\ heap'[r].status = "pending"
            /\ heap'[r].userId = Null.id
            /\ heap'[r].apiKey = Null.apiKey
            /\ heap'[r].expiresAt - heap'[r].createdAt = ExpiresIn * MsPerSecond
            /\ PollInterval = DefaultInterval
    ]_vars

-----------------------------------------------------------------------------
(* C29 *)

\* C29: once device-deny has set a grant to denied, no device-token that starts
\* afterwards is taken to the profile lookup or answered Issued for it, no approve of
\* it succeeds, and it stays denied for as long as it exists.
C29_DenialIsFinal ==
  [][ \A r \in 1..Len(heap) :
        heap[r].status = "denied"
        => /\ ~NewlySuspended(r)
           /\ ~(TokenAnswered /\ resp'.ref = r /\ Issued(resp'))
           /\ ~(resp'.op = "device-approve" /\ resp'.status = 200 /\ resp'.ref = r)
           /\ heap'[r].status \in { "denied", "collected" }
    ]_vars

\* an approve of a denied, unexpired grant was refused
C29_Witness ==
  /\ resp.op = "device-approve"
  /\ resp.status = 409
  /\ heap[resp.ref].status = "denied"
  /\ heap[resp.ref].userId = Null.id

-----------------------------------------------------------------------------
(* C30 *)

\* the number of approves that succeeded for grant object r: approve is the only
\* writer of userId and succeeds at most once for a grant
Approvals(r) == IF heap[r].userId # Null.id THEN 1 ELSE 0

\* C30: a device-token is answered Issued only for a grant an authenticated caller
\* has approved, and the Issued answers for a grant never outnumber its approvals.
C30_IssuedOnlyIfApproved ==
  [][ (resp'.op = "device-token" /\ Issued(resp'))
        => /\ heap[resp'.ref].userId # Null.id
           /\ hist'[resp'.ref].issued <= Approvals(resp'.ref) ]_vars

-----------------------------------------------------------------------------
(* C27: the pairing code, for every value a random byte can take *)

\* the values of one byte of crypto.randomBytes
ByteValues == 0..255
\* the bytes next to the byte that runs through all values
FillerBytes == {0, 31, 255}

\* outcomes of the two crypto.randomBytes(4) calls: every position takes every byte value
CodeBytes ==
  { << <<b, c, b, c>>, <<c, b, c, b>> >> : b \in ByteValues, c \in FillerBytes }

\* var userCode = generateCode(4) + "-" + generateCode(4)
GenerateUserCode ==
  /\ gen.bytes # << >>
  /\ gen.code = EmptyStr
  /\ gen' = [ gen EXCEPT !.code = MakeUserCode(gen.bytes) ]
  /\ UNCHANGED <<now, heap, deviceCodes, inflight, resp, hist, client, race>>

CodeNext == GenerateUserCode

CodeInit ==
  /\ ServerInit
  /\ client = ClientAt(NoFile)
  /\ gen \in { [ bytes |-> r4, code |-> EmptyStr ] : r4 \in CodeBytes }
  /\ race = NotObserved

CodeSpec == CodeInit /\ [][CodeNext]_vars

\* the symbols of the alphabet
Symbols == { chars[i] : i \in 1..Len(chars) }

\* C27: every pairing code is two groups of exactly 4 characters joined by '-', every
\* character is one of the 32 symbols ABCDEFGHJKLMNPQRSTUVWXYZ23456789 (no I, O, 0, 1),
\* and byte mod 32 maps exactly 8 of the 256 byte values to each symbol.
C27_PairingCodeFormat ==
  gen.code # EmptyStr =>
    /\ Len(gen.code) = 9
    /\ SubSeq(gen.code, 5, 5) = "-"
    /\ \A i \in (1..4) \cup (6..9) : SubSeq(gen.code, i, i) \in Symbols
    /\ Join(chars) = "ABCDEFGHJKLMNPQRSTUVWXYZ23456789"
    /\ Cardinality(Symbols) = 32
    /\ Symbols \cap {"I", "O", "0", "1", "-"} = {}
    /\ \A s \in Symbols :
         Cardinality({ b \in ByteValues : generateCode(<<b>>) = s }) = 8

C27_Witness ==
  /\ gen.bytes[1][1] = 255
  /\ gen.bytes[2][1] = 31
  /\ gen.code = "9999-9999"

-----------------------------------------------------------------------------
(* C25: one approve, one deny and one device-token call on one unexpired grant *)

\* the grant the three calls are about: the object of the one device-code request
RaceGrant == 1

\* a call of this kind has been made: it has answered, or it is suspended at one of
\* its await points
Begun(op, ats) ==
  \/ \E i \in 1..Len(race.log) : race.log[i].op = op
  \/ \E x \in BagToSet(inflight) : x.at \in ats

\* the one device-code request
RaceDeviceCode ==
  /\ heap = << >>
  /\ DeviceCode

\* the approve call, with the pairing code of the grant
RaceApproveBegin ==
  /\ hist # << >>
  /\ ~Begun("device-approve", {"approve_auth"})
  /\ ApproveBegin

RaceApproveResume ==
  /\ ApproveResume
  /\ resp'.arg = hist[RaceGrant].userCode

\* the deny call, with the pairing code of the grant
RaceDenyBegin ==
  /\ hist # << >>
  /\ ~Begun("device-deny", {"deny_auth"})
  /\ DenyBegin

RaceDenyResume ==
  /\ DenyResume
  /\ resp'.arg = hist[RaceGrant].userCode

\* the device-token call, with the device code of the grant
RaceTokenBegin ==
  /\ hist # << >>
  /\ ~Begun("device-token", {"token_user", "token_ws"})
  /\ TokenBegin
  /\ resp' # NoResponse => resp'.arg = hist[RaceGrant].deviceCode

\* the three calls in any interleaving of their steps; the clock stands still, so the
\* grant stays unexpired
RaceNext ==
  \/ RaceDeviceCode
  \/ RaceApproveBegin
  \/ RaceApproveResume
  \/ RaceDenyBegin
  \/ RaceDenyResume
  \/ RaceTokenBegin
  \/ \E x \in BagToSet(inflight) : TokenUserLookup(x)
  \/ \E x \in BagToSet(inflight) : TokenWsLookup(x)
  \/ Deliver

RaceInit ==
  /\ ServerInit
  /\ client = ClientAt(NoFile)
  /\ gen = NoCode
  /\ race = Observing

RaceSpec == RaceInit /\ [][RaceNext]_vars

\* the store: the Map and the grant objects it reaches
Store(m, h) == [ map |-> m, heap |-> Collect(h, m, EmptyBag) ]

\* what the caller sees of a response (ref is not sent)
Outcome(r) ==
  [ op |-> r.op, status |-> r.status, error |-> r.error, apiKey |-> r.apiKey,
    userId |-> r.userId ]

\* the response the call of this kind got, and the request it answered: the caller
\* authenticate(req) resolved to, req.body.user_code
LoggedOf(op) == race.log[CHOOSE i \in 1..Len(race.log) : race.log[i].op = op]
CallerOf(r) == CHOOSE u \in Users \cup {Null} : u.id = r.userId
RawOf(r) == CHOOSE raw \in RawUserCodes : UserCodeOf[raw] = r.arg

\* device-approve run from start to end on store s: its response and the store it leaves
SerialApprove(s, t, r) ==
  LET a == ApproveResult(s.map, s.heap, t, CallerOf(r), RawOf(r))
  IN  { [ resp |-> a.resp, store |-> Store(s.map, a.heap) ] }

\* device-deny run from start to end on store s
SerialDeny(s, t, r) ==
  LET a == DenyResult(s.map, s.heap, CallerOf(r), RawOf(r))
  IN  { [ resp |-> a.resp, store |-> Store(s.map, a.heap) ] }

\* device-token run from start to end on store s, for each outcome of its two lookups
SerialToken(s, t, r) ==
  LET a == TokenResult(s.map, s.heap, t, r.arg)
  IN  IF a.wait = EmptyBag THEN { [ resp |-> a.resp, store |-> Store(a.map, s.heap) ] }
      ELSE LET x == CHOOSE y \in BagToSet(a.wait) : TRUE
               entry == s.heap[x.entry]
               consumed == Store(ConsumeDelete(s.map, x.deviceCode, entry.userCode), s.heap)
           IN  { [ resp |-> TokenException(x, "findUnique rejected"), store |-> s ],
                 [ resp |-> TokenException(x, "findMany rejected"), store |-> s ],
                 [ resp |-> TokenException(x, "TypeError: approvedUser is null"),
                   store |-> consumed ],
                 [ resp |-> Response("device-token", 200, "", x.deviceCode, x.entry,
                                     entry.apiKey, entry.userId),
                   store |-> consumed ] }

Serial(op, s, t) ==
  IF op = "device-approve" THEN SerialApprove(s, t, LoggedOf(op))
  ELSE IF op = "device-deny" THEN SerialDeny(s, t, LoggedOf(op))
  ELSE SerialToken(s, t, LoggedOf(op))

RaceOps == { "device-approve", "device-deny", "device-token" }
\* the sequential orders of the three calls
Orders == { o \in RaceOps \X RaceOps \X RaceOps : { o[1], o[2], o[3] } = RaceOps }

\* the three calls have answered
RaceOver == Len(race.log) = 3

\* C25: for every interleaving of one approve, one deny and one device-token call on
\* one unexpired grant, the three responses and the final store are those of the
\* three calls run one after the other in some order.
C25_Serializable ==
  RaceOver =>
    \E o \in Orders :
      \E a \in Serial(o[1], Store(race.start[1].map, race.start[1].heap), now) :
        \E b \in Serial(o[2], a.store, now) :
          \E c \in Serial(o[3], b.store, now) :
            /\ Outcome(a.resp) = Outcome(LoggedOf(o[1]))
            /\ Outcome(b.resp) = Outcome(LoggedOf(o[2]))
            /\ Outcome(c.resp) = Outcome(LoggedOf(o[3]))
            /\ c.store = Store(deviceCodes, heap)

\* the device-token call began on the approved grant, the deny call answered while it
\* was suspended, and it answered after the deny
C25_Witness ==
  /\ RaceOver
  /\ ~Expired(RaceGrant)
  /\ race.log[1].op = "device-approve" /\ race.log[1].status = 200
  /\ race.log[2].op = "device-deny" /\ race.log[2].status = 200
  /\ Issued(race.log[3])

-----------------------------------------------------------------------------
(* C31 *)

\* C31: a device-token call on an approved, unexpired grant that does not answer
\* Issued (a profile lookup fails or finds no user) leaves the grant and its index
\* entry in the Map: a grant is consumed only by a call that answers Issued.
C31_FailedRedeemKeepsGrant ==
  [][ \A x \in TokenHandlers :
        ( /\ Resumed(x)
          /\ resp'.op = "device-token"
          /\ ~Issued(resp')
          /\ ~Expired(x.entry) )
        => /\ MapGet(deviceCodes', x.deviceCode) = MapGet(deviceCodes, x.deviceCode)
           /\ MapGet(deviceCodes', UcKey(heap[x.entry].userCode))
                = MapGet(deviceCodes, UcKey(heap[x.entry].userCode)) ]_vars

-----------------------------------------------------------------------------
(* C32 *)

\* C32: device-approve and device-deny never remove an entry from the Map: whatever
\* they answer, the Map has the same keys after the call as before; only
\* device-token and the sweep delete entries.
C32_ApproveDenyDeleteNothing ==
  [][ /\ resp'.op \in {"device-approve", "device-deny"}
           => /\ DOMAIN deviceCodes' = DOMAIN deviceCodes
              /\ deviceCodes' = deviceCodes
      /\ (DOMAIN deviceCodes) \ (DOMAIN deviceCodes') # {}
           => Sweep \/ TokenAnswered \/ TokenCompleted ]_vars

\* a deny has answered for a stored grant, and the grant and its index entry are there
C32_Witness ==
  /\ resp.op = "device-deny"
  /\ resp.status = 200
  /\ resp.ref \in StoredRefs
  /\ heap[resp.ref].status = "denied"
  /\ MapGet(deviceCodes, hist[resp.ref].deviceCode) = GrantRef(resp.ref)
  /\ MapGet(deviceCodes, UcKey(resp.arg)) = StrVal(hist[resp.ref].deviceCode)

-----------------------------------------------------------------------------
(* C33 *)

\* C33: a sweep cycle run at time now leaves every grant whose expiresAt is at or
\* after now unchanged and present, together with its pairing-code index entry,
\* whatever its status.
C33_SweepKeepsUnexpired ==
  [][ Sweep =>
        \A r \in StoredRefs :
          heap[r].expiresAt >= now
          => /\ r \in StoredRefs'
             /\ heap'[r] = heap[r]
             /\ \A k \in DOMAIN deviceCodes :
                  deviceCodes[k] = GrantRef(r) => MapGet(deviceCodes', k) = GrantRef(r)
             /\ MapGet(deviceCodes', UcKey(heap[r].userCode))
                  = MapGet(deviceCodes, UcKey(heap[r].userCode)) ]_vars

\* a grant that is no longer pending expires at this very millisecond and is stored
\* with its index entry, while the key of an older grant is gone
C33_Witness ==
  /\ Ready
  /\ \E r \in StoredRefs :
       /\ heap[r].expiresAt = now
       /\ heap[r].status \in {"approved", "denied"}
       /\ MapGet(deviceCodes, UcKey(heap[r].userCode)) = StrVal(hist[r].deviceCode)
       /\ \E q \in 1..Len(hist) :
            /\ q # r
            /\ heap[q].status = "collected"
            /\ hist[q].deviceCode \notin DOMAIN deviceCodes
            /\ hist[q].issued = 0
            /\ hist[q].denied = 0

-----------------------------------------------------------------------------
(* C34 *)

\* the response is none of 428, 403, 410 and no success carrying a credential
OtherResponse(r) ==
  /\ r # TransportError
  /\ r.status \notin { 428, 403, 410 }
  /\ ~(Ok(r) /\ r.body \in { "issued", "issued_no_user" })

\* C34: a poll response that is none of 428, 403, 410 or a success carrying a
\* credential, including one whose body cannot be parsed, ends the login run with a
\* failure and no further device-token call; only transport failures are retried.
C34_OtherResponseEndsRun ==
  [][ (client.pc = "fetch" /\ OtherResponse(client'.last))
        => /\ client'.pc = "done"
           /\ client'.exit = "1" ]_vars

-----------------------------------------------------------------------------
(* C35 *)

\* the run ended at the device-code request: no connection, or !r.ok
PairingFailed == client.message \in { "connection", "device_code_failed" }

\* C35: in every login run each device-token call is preceded by one sleep of the
\* poll interval (the first call comes one interval after device-code returned), and
\* no call is made unless device-code succeeded: a failed or unreachable device-code
\* ends the run with no device-token call.
C35_SleepBeforeEachPoll ==
  /\ [](client.sleeps = client.calls + (IF client.pc = "fetch" THEN 1 ELSE 0))
  /\ [][ client'.calls # client.calls
           => /\ client.pc = "fetch"
              /\ client'.calls = client.calls + 1
              /\ client.sleeps = client'.calls
              /\ Polling
              /\ client.pollInterval = EffectiveInterval * MsPerSecond ]_vars
  /\ [](PairingFailed => client.calls = 0 /\ client.sleeps = 0 /\ client.pc = "done"
                           /\ client.exit = "1")
  /\ [](client.pc \in { "start", "request" } => client.calls = 0)

\* the second poll has been made, after two sleeps of 3 seconds
C35_Witness ==
  /\ client.calls = 2
  /\ client.sleeps = 2
  /\ client.pollInterval = 3000
  /\ client.interval = 3

-----------------------------------------------------------------------------
(* C36 *)

\* the time since device-code returned, when no request takes any time: the sleeps
Elapsed == client.sleeps * client.pollInterval
\* the lifetime of the grant the device-code response announced, in milliseconds
Lifetime == EffectiveExpiresIn * MsPerSecond
\* device-token at time t for a grant with this expiresAt: Date.now() > entry.expiresAt
ExpiredAt(t, expiresAt) == GreaterThan(t, expiresAt)

\* C36 (as stated): for all positive expires_in and interval (missing or zero ones
\* replaced by 600 and 5) ceil(expires_in / interval) * interval >= expires_in, so
\* with zero network latency the client never reports its time-out while the grant
\* is still unexpired on the server.
C36_NoTimeoutWhileUnexpired ==
  Polling =>
    /\ client.maxAttempts * client.pollInterval >= Lifetime
    /\ client.message = "timeout" => ExpiredAt(Elapsed, Lifetime)

\* C36 (amended): ceil(expires_in / interval) * interval >= expires_in, so with zero
\* network latency the client never reports its time-out before the expiresAt of the
\* grant; it can report it at expiresAt itself, where the server still answers 428.
C36_NoTimeoutBeforeExpiresAt ==
  Polling =>
    /\ client.maxAttempts > 0
    /\ client.maxAttempts * client.pollInterval >= Lifetime
    /\ client.message = "timeout"
         => /\ Elapsed = client.maxAttempts * client.pollInterval
            /\ Elapsed >= Lifetime

\* the 120th poll of a run with the values of the server (600, 5) was made at
\* expiresAt, was answered 428, and the run timed out
C36_Witness ==
  /\ client.message = "timeout"
  /\ EffectiveExpiresIn = ExpiresIn
  /\ EffectiveInterval = PollInterval
  /\ Elapsed = GrantTTL
  /\ ~ExpiredAt(Elapsed, Lifetime)
  /\ Parsed(client.last)
  /\ client.last.status = 428

-----------------------------------------------------------------------------
(* C37 *)

\* this step is the start of the login run (not the logout before it)
LoginStarts == client.pc = "start" /\ client'.pc # "start"

\* C37: a login run started while the credentials file holds an api_key makes no
\* device-code and no device-token request and leaves the file unchanged; after
\* logout, a login run does start a new pairing.
C37_LoggedInSkipsPairing ==
  /\ [][ (LoginStarts /\ client.creds.api_key # "")
           => /\ client'.pc = "done"
              /\ client'.message = "already"
              /\ client'.creds = client.creds ]_vars
  /\ [](client.message = "already"
          => client.pc = "done" /\ client.calls = 0 /\ client.sleeps = 0)
  /\ [][ (LoginStarts /\ client.loggedOut) => client'.pc = "request" ]_vars

-----------------------------------------------------------------------------
(* C38 *)

\* the response is the validation error of a missing code
ValidationError(r) ==
  /\ r.status = 400
  /\ r.error = (IF r.op = "device-token" THEN "device_code required" ELSE "user_code required")

\* this step answers a device-token call without device_code, or a device-approve
\* call whose user_code is empty once trimmed
CodeMissing ==
  /\ resp'.op \in { "device-token", "device-approve" }
  /\ resp'.arg = EmptyStr

\* C38 (as stated): a device-token request with an empty or missing device_code and
\* a device-approve request with an empty or whitespace-only user_code are rejected
\* with a validation error and leave the store unchanged.
C38_MissingCodeRejected ==
  [][ CodeMissing
        => /\ ValidationError(resp')
           /\ deviceCodes' = deviceCodes
           /\ heap' = heap ]_vars

\* C38 (amended): a device-token request with an empty or missing device_code, and a
\* device-approve request by a logged-in caller with an empty or whitespace-only
\* user_code, are rejected with a validation error; a caller who is not logged in
\* gets 401 instead; in every case the store is unchanged.
C38_MissingCodeRejectedOrUnauthenticated ==
  [][ CodeMissing
        => /\ IF resp'.op = "device-approve" /\ resp'.userId = Null.id
              THEN resp'.status = 401
              ELSE ValidationError(resp')
           /\ deviceCodes' = deviceCodes
           /\ heap' = heap ]_vars

\* a logged-in caller sent a blank user_code while a pending grant is stored
C38_Witness ==
  /\ resp.op = "device-approve"
  /\ resp.arg = EmptyStr
  /\ resp.userId # Null.id
  /\ ValidationError(resp)
  /\ \E r \in StoredRefs : heap[r].status = "pending"

====
